---- MODULE Spec2Model ----
(***************************************************************************)
(* Model of modules/evm-accounts (src/modules/evm-accounts/src/lib.rs):    *)
(* the claim_account extrinsic, the two storage maps Accounts and          *)
(* EvmAddresses, the account-killed hook, and the signature engine         *)
(* (ethereum_signable_message, eth_recover, eth_sign, to_ascii_hex).       *)
(*                                                                         *)
(* Scaling.  Byte strings are sequences of numbers 0..255.  An H160 is     *)
(* scaled from 20 bytes to 1 byte, an AccountId32 from 32 bytes to         *)
(* 4 + 1 + 1 bytes ("evm:" tag, address, zero padding).  keccak_256 and    *)
(* secp256k1 are symbolic: a hash is represented by its preimage, a public *)
(* key by its secret key, and the 20 low bytes of the hash of the public   *)
(* key of secret key k are the address <<k>>.  The all-zero address <<0>>  *)
(* is H160::default(); the code accepts it like any other address.         *)
(***************************************************************************)
EXTENDS Integers, Sequences, FiniteSets, TLC

VARIABLES Accounts, EvmAddresses, Account, Events, last, calls, fwd, harness

vars == <<Accounts, EvmAddresses, Account, Events, last, calls, fwd, harness>>

\* ------------------------------------------------------------------ bounds
\* cap on the total issuance the environment may create
MaxIssuance == 2
\* cap on the sequence counters the environment may reach
MaxNonce == 1
\* longest payload / extra of the signing harness
MaxPayload == 2

\* ------------------------------------------------------- program constants
\* T::NewAccountDeposit::get(), the configured deposit threshold
NewAccountDeposit == 1

\* ------------------------------------------------------------ byte strings
Reverse(s) == [i \in 1..Len(s) |-> s[Len(s) + 1 - i]]

\* b"\x19Ethereum Signed Message:\n"
EthereumPreamble ==
  <<25, 69, 116, 104, 101, 114, 101, 117, 109, 32, 83, 105, 103, 110, 101,
    100, 32, 77, 101, 115, 115, 97, 103, 101, 58, 10>>

\* b"acala evm:"
prefix == <<97, 99, 97, 108, 97, 32, 101, 118, 109, 58>>

\* b"evm:"
EvmTag == <<101, 118, 109, 58>>

\* the closure push_nibble of to_ascii_hex
push_nibble(n) == IF n < 10 THEN 48 + n ELSE 97 - 10 + n

\* to_ascii_hex: two lowercase hex characters per byte
RECURSIVE to_ascii_hex(_)
to_ascii_hex(data) ==
  IF data = <<>> THEN <<>>
  ELSE <<push_nibble(Head(data) \div 16), push_nibble(Head(data) % 16)>>
       \o to_ascii_hex(Tail(data))

\* the while loop of ethereum_signable_message: least significant digit first
RECURSIVE rev_digits(_)
rev_digits(l) ==
  IF l > 0 THEN <<48 + (l % 10)>> \o rev_digits(l \div 10) ELSE <<>>

\* faulty variant of ethereum_signable_message: the digits are not reversed
ethereum_signable_message_NoReverse(what, extra) ==
  LET l == Len(prefix) + Len(what) + Len(extra)
      rev == rev_digits(l)
  IN  EthereumPreamble \o rev \o prefix \o what \o extra

ethereum_signable_message(what, extra) ==
  LET l == Len(prefix) + Len(what) + Len(extra)
      rev == rev_digits(l)
  IN  EthereumPreamble \o Reverse(rev) \o prefix \o what \o extra

\* ------------------------------------------------------- symbolic crypto
\* the secret keys of the model, one claimable address per key; key 0 is a
\* key whose address is H160::default()
SecretKeys == {0, 1}

keccak_256(bytes) == [keccak |-> bytes]

\* a public key: that of a secret key, or a stray one nobody holds a key of
eth_public(secret) == [secret |-> secret, stray |-> FALSE]

StrayPublic == [secret |-> 0, stray |-> TRUE]

\* keccak_256(public key)[12..]: the 20 low bytes of the hash, as an address
AddressOfPublic(pk) == IF pk.stray THEN <<255>> ELSE <<pk.secret>>

eth_address(secret) == AddressOfPublic(eth_public(secret))

\* a 65-byte signature: well formed (r, s, v) made by a key over a message
\* hash, or bytes from which no key can be recovered
MalformedSignature == [wellformed |-> FALSE, secret |-> 0, msg |-> keccak_256(<<>>)]

secp256k1_sign(msg, secret) == [wellformed |-> TRUE, secret |-> secret, msg |-> msg]

\* ECDSA recovery: the signer's key for the signed hash, another key for any
\* other hash, nothing for malformed bytes
secp256k1_ecdsa_recover(s, msg) ==
  IF ~s.wellformed THEN [ok |-> FALSE, pk |-> StrayPublic]
  ELSE IF s.msg = msg THEN [ok |-> TRUE, pk |-> eth_public(s.secret)]
  ELSE [ok |-> TRUE, pk |-> StrayPublic]

NoAddress == <<>>

\* faulty variant of eth_recover: the signer's address whatever message was signed
eth_recover_AnyMessage(s, what, extra) ==
  IF s.wellformed THEN AddressOfPublic(eth_public(s.secret)) ELSE NoAddress

\* eth_recover: Option<EvmAddress>, None is NoAddress
eth_recover(s, what, extra) ==
  LET msg == keccak_256(ethereum_signable_message(what, extra))
      rec == secp256k1_ecdsa_recover(s, msg)
  IN  IF rec.ok THEN AddressOfPublic(rec.pk) ELSE NoAddress

\* faulty variant of eth_sign: the payload is signed as it is, not hex-encoded
eth_sign_NoHex(secret, what, extra) ==
  secp256k1_sign(keccak_256(ethereum_signable_message(what, extra)), secret)

\* eth_sign: signs the message built over the hex-encoded payload
eth_sign(secret, what, extra) ==
  LET msg == keccak_256(ethereum_signable_message(to_ascii_hex(what), extra))
  IN  secp256k1_sign(msg, secret)

\* ------------------------------------------------------------- identities
\* H160::default()
DefaultAddress == <<0>>

Addresses == {<<k>> : k \in SecretKeys}

Alice == <<1, 2, 3, 4, 5, 6>>

Bob == <<171, 205, 239, 0, 16, 255>>

\* accounts able to sign an extrinsic
Callers == {Alice, Bob}

\* the else branch of into_account_id: "evm:" ++ address ++ zero padding
Synthesized(address) == EvmTag \o address \o <<0>>

AccountIds == Callers \cup {Synthesized(a) : a \in Addresses}

\* who.using_encoded(f): the SCALE encoding of an AccountId32 is its bytes
encode(who) == who

\* ---------------------------------------------------------- program state
\* frame_system::AccountInfo with the balances AccountData it holds
DefaultAccountInfo == [nonce |-> 0, refcount |-> 0, free |-> 0, reserved |-> 0]

\* the storage a transaction reads and writes
State == [Accounts |-> Accounts, EvmAddresses |-> EvmAddresses,
          Account |-> Account, Events |-> Events]

\* remove a key of a storage map (no effect when the key is absent)
MapRemove(f, k) == [x \in (DOMAIN f) \ {k} |-> f[x]]

\* insert or overwrite a key of a storage map
MapInsert(f, k, v) == (k :> v) @@ f

\* getter accounts(): the mapped account (ValueQuery)
accounts(st, address) ==
  IF address \in DOMAIN st.Accounts THEN st.Accounts[address] ELSE <<0, 0, 0, 0, 0, 0>>

\* getter evm_addresses(): the mapped address, H160::default() when the
\* account has no entry (ValueQuery)
evm_addresses(st, who) ==
  IF who \in DOMAIN st.EvmAddresses THEN st.EvmAddresses[who] ELSE DefaultAddress

\* ----------------------------------------------------- account registry
AccountGet(st, who) ==
  IF who \in DOMAIN st.Account THEN st.Account[who] ELSE DefaultAccountInfo

is_explicit(st, who) == who \in DOMAIN st.Account

allow_death(st, who) == AccountGet(st, who).refcount = 0

account_nonce(st, who) == AccountGet(st, who).nonce

\* frame_system::Account::mutate(&who, |v| v.nonce = nonce)
Account_mutate_nonce(st, who, nonce) ==
  [st EXCEPT !.Account = MapInsert(@, who, [AccountGet(st, who) EXCEPT !.nonce = nonce])]

\* --------------------------------------------------- account-killed hook
on_killed_account(st, who) ==
  LET st1 == [st EXCEPT !.Accounts = MapRemove(@, evm_addresses(st, who))]
  IN  [st1 EXCEPT !.EvmAddresses = MapRemove(@, who)]

\* OnKillAccount::happened
OnKillAccount_happened(st, who) == on_killed_account(st, who)

\* the registry destroys an account: its entry (sequence counter, reference
\* count, balances) is dropped and the account-killed hook runs
kill_account(st, who) ==
  OnKillAccount_happened([st EXCEPT !.Account = MapRemove(@, who)], who)

\* T::KillAccount::happened
KillAccount_happened(st, who) == kill_account(st, who)

\* ------------------------------------------------------------------ ledger
free_balance(st, who) == AccountGet(st, who).free

reserved_balance(st, who) == AccountGet(st, who).reserved

Min(a, b) == IF a < b THEN a ELSE b

\* Currency::unreserve: moves up to value from reserved to free
unreserve(st, who, value) ==
  LET actual == Min(reserved_balance(st, who), value)
  IN  IF is_explicit(st, who)
      THEN [st EXCEPT !.Account[who].reserved = @ - actual,
                      !.Account[who].free = @ + actual]
      ELSE st

\* Currency::transfer(source, dest, value, AllowDeath).  env.transferOk is
\* the ledger's verdict; env.reap tells whether the ledger's account store
\* drops an account emptied by the transfer.
transfer(st, source, dest, value, env) ==
  IF ~env.transferOk \/ free_balance(st, source) < value
  THEN [ok |-> FALSE, st |-> st]
  ELSE IF source = dest THEN [ok |-> TRUE, st |-> st]
  ELSE LET st1 == [st EXCEPT !.Account[source].free = @ - value]
           st2 == [st1 EXCEPT !.Account =
                     MapInsert(@, dest, [AccountGet(st1, dest) EXCEPT !.free = @ + value])]
           emptied == free_balance(st2, source) + reserved_balance(st2, source) = 0
       IN  [ok |-> TRUE,
            st |-> IF env.reap /\ emptied THEN kill_account(st2, source) ELSE st2]

\* ---------------------------------------------------------- claim_account
\* faulty variant of into_account_id: the address bytes are left out of the
\* synthesized identity
into_account_id_NoAddress(st, address) ==
  IF address \in DOMAIN st.Accounts THEN accounts(st, address)
  ELSE EvmTag \o <<0>> \o <<0>>

\* AddressMapping::into_account_id
into_account_id(st, address) ==
  IF address \in DOMAIN st.Accounts THEN accounts(st, address) ELSE Synthesized(address)

\* an entry of the log of external calls a claim makes
Call(op, who, value) == [op |-> op, who |-> who, value |-> value]

\* Event::ClaimAccount
ClaimAccount(who, eth_addr) == [who |-> who, eth_address |-> eth_addr]

\* faulty variant of deposit_event: the event is deposited twice
deposit_event_Twice(st, ev) == [st EXCEPT !.Events = Append(Append(@, ev), ev)]

deposit_event(st, ev) == [st EXCEPT !.Events = Append(@, ev)]

\* faulty variant of reserved_within_deposit: a reserve equal to the deposit is refused
reserved_within_deposit_Strict(new_account_deposit, total_reserved) ==
  new_account_deposit > total_reserved

\* ensure!(new_account_deposit >= total_reserved, StillHasActiveReserved)
reserved_within_deposit(new_account_deposit, total_reserved) ==
  new_account_deposit >= total_reserved

\* faulty variant of merge_unreserve: the reserve is left in place
merge_unreserve_Skip(st, account_id, total_reserved) == [st |-> st, calls |-> <<>>]

\* "unreserve all reserved currency"
merge_unreserve(st, account_id, total_reserved) ==
  IF total_reserved > 0
  THEN [st |-> unreserve(st, account_id, total_reserved),
        calls |-> <<Call("unreserve", account_id, total_reserved)>>]
  ELSE [st |-> st, calls |-> <<>>]

\* faulty variant of merge_transfer: the free balance stays on the shadow account
merge_transfer_Skip(st, who, account_id, env) ==
  [ok |-> TRUE, st |-> st, calls |-> <<>>]

\* "transfer all free to origin"
merge_transfer(st, who, account_id, env) ==
  LET free == free_balance(st, account_id)
  IN  IF free > 0
      THEN LET t == transfer(st, account_id, who, free, env)
           IN  [ok |-> t.ok, st |-> t.st,
                calls |-> <<Call("transfer", account_id, free)>>]
      ELSE [ok |-> TRUE, st |-> st, calls |-> <<>>]

\* faulty variant of merge_kill: the shadow account is not destroyed
merge_kill_NoKill(st, account_id) ==
  LET nonce == account_nonce(st, account_id)
  IN  [st |-> st, nonce |-> nonce,
       calls |-> <<Call("account_nonce", account_id, nonce)>>]

\* reads the shadow account's nonce, then "finally kill the account"
merge_kill(st, account_id) ==
  LET nonce == account_nonce(st, account_id)
  IN  [st |-> KillAccount_happened(st, account_id), nonce |-> nonce,
       calls |-> <<Call("account_nonce", account_id, nonce),
                   Call("kill", account_id, 0)>>]

\* faulty variant of merge: the reserved bound is checked before allow_death
merge_ReservedFirst(st, who, account_id, env) ==
  LET new_account_deposit == NewAccountDeposit
      total_reserved == reserved_balance(st, account_id)
  IN
  IF ~reserved_within_deposit(new_account_deposit, total_reserved)
  THEN [err |-> "StillHasActiveReserved", st |-> st, nonce |-> 0, calls |-> <<>>]
  ELSE IF ~allow_death(st, account_id)
  THEN [err |-> "NonZeroRefCount", st |-> st, nonce |-> 0, calls |-> <<>>]
  ELSE
  LET u == merge_unreserve(st, account_id, total_reserved)
      t == merge_transfer(u.st, who, account_id, env)
  IN
  IF ~t.ok
  THEN [err |-> "LedgerError", st |-> t.st, nonce |-> 0, calls |-> u.calls \o t.calls]
  ELSE
  LET k == merge_kill(t.st, account_id)
  IN  [err |-> "Ok", st |-> k.st, nonce |-> k.nonce,
       calls |-> u.calls \o t.calls \o k.calls]

\* the body of `if is_explicit(&account_id) { ... }`
merge(st, who, account_id, env) ==
  IF ~allow_death(st, account_id)
  THEN [err |-> "NonZeroRefCount", st |-> st, nonce |-> 0, calls |-> <<>>]
  ELSE
  LET new_account_deposit == NewAccountDeposit
      total_reserved == reserved_balance(st, account_id)
  IN
  IF ~reserved_within_deposit(new_account_deposit, total_reserved)
  THEN [err |-> "StillHasActiveReserved", st |-> st, nonce |-> 0, calls |-> <<>>]
  ELSE
  LET u == merge_unreserve(st, account_id, total_reserved)
      t == merge_transfer(u.st, who, account_id, env)
  IN
  IF ~t.ok
  THEN [err |-> "LedgerError", st |-> t.st, nonce |-> 0, calls |-> u.calls \o t.calls]
  ELSE
  LET k == merge_kill(t.st, account_id)
  IN  [err |-> "Ok", st |-> k.st, nonce |-> k.nonce,
       calls |-> u.calls \o t.calls \o k.calls]

\* faulty variant of merge_nonce: the origin nonce is written whatever it was
merge_nonce_Always(st, who, nonce) == Account_mutate_nonce(st, who, nonce)

\* "make the origin nonce the max between origin and evm padded address"
merge_nonce(st, who, nonce) ==
  LET origin_nonce == account_nonce(st, who)
  IN  IF origin_nonce < nonce THEN Account_mutate_nonce(st, who, nonce) ELSE st

\* faulty variant of update_accounts: the caller's old forward entry is not removed
update_accounts_NoRemove(st, who, eth_addr) ==
  LET st2 == [st EXCEPT !.Accounts = MapInsert(@, eth_addr, who)]
      st3 == [st2 EXCEPT !.EvmAddresses = MapInsert(@, who, eth_addr)]
  IN  [st |-> st3, fwd |-> <<st.Accounts, st.Accounts, st2.Accounts>>]

\* the "update accounts" block; fwd lists the forward table before the
\* block, after its remove and after its insert
update_accounts(st, who, eth_addr) ==
  LET st1 == IF who \in DOMAIN st.EvmAddresses
             THEN [st EXCEPT !.Accounts = MapRemove(@, evm_addresses(st, who))]
             ELSE st
      st2 == [st1 EXCEPT !.Accounts = MapInsert(@, eth_addr, who)]
      st3 == [st2 EXCEPT !.EvmAddresses = MapInsert(@, who, eth_addr)]
  IN  [st |-> st3, fwd |-> <<st.Accounts, st1.Accounts, st2.Accounts>>]

Failed(err, st, cs) == [err |-> err, st |-> st, calls |-> cs, fwd |-> <<>>]

\* faulty variant of eth_address_has_mapped: the mapping check never fires
eth_address_has_mapped_Never(st, eth_addr) == FALSE

\* Accounts::contains_key(eth_address)
eth_address_has_mapped(st, eth_addr) == eth_addr \in DOMAIN st.Accounts

\* the closure handed to with_transaction_result; who is ensure_signed(origin)
claim_closure(st, who, eth_addr, eth_signature, env) ==
  IF eth_address_has_mapped(st, eth_addr)
  THEN Failed("EthAddressHasMapped", st, <<>>)
  ELSE
  LET address == eth_recover(eth_signature, to_ascii_hex(encode(who)), <<>>)
  IN
  IF address = NoAddress THEN Failed("BadSignature", st, <<>>)
  ELSE IF ~(eth_addr = address) THEN Failed("InvalidSignature", st, <<>>)
  ELSE
  LET account_id == into_account_id(st, eth_addr)
      m == IF is_explicit(st, account_id)
           THEN merge(st, who, account_id, env)
           ELSE [err |-> "Ok", st |-> st, nonce |-> 0, calls |-> <<>>]
  IN
  IF m.err # "Ok" THEN Failed(m.err, m.st, m.calls)
  ELSE
  LET st4 == merge_nonce(m.st, who, m.nonce)
      u == update_accounts(st4, who, eth_addr)
      st5 == deposit_event(u.st, ClaimAccount(who, eth_addr))
  IN  [err |-> "Ok", st |-> st5, calls |-> m.calls, fwd |-> u.fwd]

\* faulty variant of with_transaction_result: the writes of a failed closure are kept
with_transaction_result_NoRollback(st, r) == r

\* orml_utilities::with_transaction_result: commit on Ok, roll back on Err
with_transaction_result(st, r) ==
  [r EXCEPT !.st = IF r.err = "Ok" THEN r.st ELSE st]

\* ------------------------------------------------------------ the machine
IdleHarness == [stage |-> "idle", secret |-> 0, what |-> <<>>, extra |-> <<>>,
                msg |-> <<>>, sig |-> MalformedSignature, rec |-> NoAddress]

NoCall == [op |-> "none", who |-> Alice, eth_address |-> DefaultAddress,
           eth_signature |-> MalformedSignature, err |-> "Ok"]

\* signatures a caller may submit: unrecoverable bytes, or any key's
\* signature over any caller's identity
Signatures ==
  {MalformedSignature} \cup
  {eth_sign(k, encode(w), <<>>) : k \in SecretKeys, w \in Callers}

\* the ledger's answers to a transfer: refused; done; done, the emptied
\* source account being dropped
Envs == {[transferOk |-> FALSE, reap |-> FALSE],
         [transferOk |-> TRUE, reap |-> FALSE],
         [transferOk |-> TRUE, reap |-> TRUE]}

\* a block is open and no call has run in it yet (one call per block)
FreshBlock == last.op = "none"

Install(st) ==
  /\ Accounts' = st.Accounts
  /\ EvmAddresses' = st.EvmAddresses
  /\ Account' = st.Account
  /\ Events' = st.Events

Init ==
  /\ Accounts = <<>>
  /\ EvmAddresses = <<>>
  /\ Account = <<>>
  /\ Events = <<>>
  /\ last = NoCall
  /\ calls = <<>>
  /\ fwd = <<>>
  /\ harness = IdleHarness

\* faulty variant of claim_account: the reserve is released before its bound is
\* checked and nothing rolls the release back
claim_account_NoRollback(who, eth_addr, eth_signature, env) ==
  LET st == State
      r == claim_closure(st, who, eth_addr, eth_signature, env)
      shadow == Synthesized(eth_addr)
      kept == IF r.err = "StillHasActiveReserved"
              THEN unreserve(st, shadow, reserved_balance(st, shadow))
              ELSE r.st
  IN  /\ FreshBlock
      /\ Install(kept)
      /\ last' = [op |-> "claim_account", who |-> who, eth_address |-> eth_addr,
                  eth_signature |-> eth_signature, err |-> r.err]
      /\ calls' = r.calls
      /\ fwd' = r.fwd
      /\ UNCHANGED harness

\* the extrinsic claim_account(origin, eth_address, eth_signature)
claim_account(who, eth_addr, eth_signature, env) ==
  LET r == with_transaction_result(State,
             claim_closure(State, who, eth_addr, eth_signature, env))
  IN  /\ FreshBlock
      /\ Install(r.st)
      /\ last' = [op |-> "claim_account", who |-> who, eth_address |-> eth_addr,
                  eth_signature |-> eth_signature, err |-> r.err]
      /\ calls' = r.calls
      /\ fwd' = r.fwd
      /\ UNCHANGED harness

RECURSIVE SumOver(_, _)
SumOver(f, S) ==
  IF S = {} THEN 0
  ELSE LET x == CHOOSE y \in S : TRUE
       IN  f[x].free + f[x].reserved + SumOver(f, S \ {x})

TotalIssuance(st) == SumOver(st.Account, DOMAIN st.Account)

EnvStep(st) ==
  /\ FreshBlock
  /\ Install(st)
  /\ UNCHANGED <<last, calls, fwd, harness>>

\* the ledger credits an account (creating it when it is new)
Endow(who) ==
  /\ TotalIssuance(State) < MaxIssuance
  /\ EnvStep([State EXCEPT !.Account =
        MapInsert(@, who, [AccountGet(State, who) EXCEPT !.free = @ + 1])])

\* some other business reserves part of an account's free balance
Reserve(who) ==
  /\ free_balance(State, who) > 0
  /\ EnvStep([State EXCEPT !.Account[who].free = @ - 1,
                           !.Account[who].reserved = @ + 1])

\* an account sends a transaction: its sequence counter advances
IncNonce(who) ==
  /\ is_explicit(State, who)
  /\ account_nonce(State, who) < MaxNonce
  /\ EnvStep([State EXCEPT !.Account[who].nonce = @ + 1])

\* a lock or another module takes, or drops, a reference on an account
SetRef(who, n) ==
  /\ is_explicit(State, who)
  /\ AccountGet(State, who).refcount # n
  /\ EnvStep([State EXCEPT !.Account[who].refcount = n])

\* the registry destroys an account and runs the account-killed hook
AccountKilled(who) ==
  /\ FreshBlock
  /\ Install(kill_account(State, who))
  /\ last' = [NoCall EXCEPT !.op = "killed", !.who = who]
  /\ UNCHANGED <<calls, fwd, harness>>

\* the next block opens: the events of the block before are cleared and the
\* record of its call is dropped
NewBlock ==
  /\ ~FreshBlock
  /\ Events' = <<>>
  /\ last' = NoCall
  /\ calls' = <<>>
  /\ fwd' = <<>>
  /\ UNCHANGED <<Accounts, EvmAddresses, Account, harness>>

Next ==
  \/ \E who \in Callers, a \in Addresses, s \in Signatures, env \in Envs :
       claim_account(who, a, s, env)
  \/ \E who \in AccountIds : Endow(who)
  \/ \E a \in Addresses : Reserve(Synthesized(a))
  \/ \E who \in AccountIds : IncNonce(who)
  \/ \E a \in Addresses, n \in 0..1 : SetRef(Synthesized(a), n)
  \/ \E who \in AccountIds : AccountKilled(who)
  \/ NewBlock

Spec == Init /\ [][Next]_vars

\* the same machine without registry-initiated destruction: accounts are
\* destroyed only inside a claim's merge
NextClaims ==
  \/ \E who \in Callers, a \in Addresses, s \in Signatures, env \in Envs :
       claim_account(who, a, s, env)
  \/ \E who \in AccountIds : Endow(who)
  \/ \E a \in Addresses : Reserve(Synthesized(a))
  \/ \E who \in AccountIds : IncNonce(who)
  \/ \E a \in Addresses, n \in 0..1 : SetRef(Synthesized(a), n)
  \/ NewBlock

SpecClaims == Init /\ [][NextClaims]_vars

\* ------------------------------------------------- the signing harness
\* byte strings of length at most n over a set of bytes
BytesUpTo(S, n) == UNION {[1..k -> S] : k \in 0..n}

\* payload and extra bytes the harness signs: a zero byte, the character
\* '0' and a byte whose hex digits are letters
HarnessBytes == {0, 48, 171}

\* the hex encoding of a 32-byte all-zero account: 64 characters '0'
ZeroAccountHex == to_ascii_hex([i \in 1..32 |-> 0])

\* long payloads of the harness: 64 characters (length field "74") and 90
\* characters (length field "100")
LongPayloads == {ZeroAccountHex, [i \in 1..90 |-> 171]}

InitSig ==
  /\ Accounts = <<>>
  /\ EvmAddresses = <<>>
  /\ Account = <<>>
  /\ Events = <<>>
  /\ last = NoCall
  /\ calls = <<>>
  /\ fwd = <<>>
  /\ \E secret \in SecretKeys,
        what \in BytesUpTo(HarnessBytes, MaxPayload) \cup LongPayloads,
        extra \in BytesUpTo(HarnessBytes, MaxPayload) :
       harness = [stage |-> "input", secret |-> secret, what |-> what,
                  extra |-> extra, msg |-> <<>>, sig |-> MalformedSignature,
                  rec |-> NoAddress]

\* ethereum_signable_message(what, extra)
Message ==
  /\ harness.stage = "input"
  /\ harness' = [harness EXCEPT !.stage = "message",
                   !.msg = ethereum_signable_message(harness.what, harness.extra)]
  /\ UNCHANGED <<Accounts, EvmAddresses, Account, Events, last, calls, fwd>>

\* eth_sign(secret, what, extra)
Sign ==
  /\ harness.stage = "input"
  /\ harness' = [harness EXCEPT !.stage = "signed",
                   !.sig = eth_sign(harness.secret, harness.what, harness.extra)]
  /\ UNCHANGED <<Accounts, EvmAddresses, Account, Events, last, calls, fwd>>

\* eth_recover(sig, what, extra), with the payload eth_sign was given
RecoverSame ==
  /\ harness.stage = "signed"
  /\ harness' = [harness EXCEPT !.stage = "recovered",
                   !.rec = eth_recover(harness.sig, harness.what, harness.extra)]
  /\ UNCHANGED <<Accounts, EvmAddresses, Account, Events, last, calls, fwd>>

\* eth_recover(sig, to_ascii_hex(what), extra), as claim_account calls it
RecoverHex ==
  /\ harness.stage = "signed"
  /\ harness' = [harness EXCEPT !.stage = "recovered_hex",
                   !.rec = eth_recover(harness.sig, to_ascii_hex(harness.what),
                                       harness.extra)]
  /\ UNCHANGED <<Accounts, EvmAddresses, Account, Events, last, calls, fwd>>

NextSig == Message \/ Sign \/ RecoverSame \/ RecoverHex

SpecSig == InitSig /\ [][NextSig]_vars

\* ------------------------------------------------------------------ claims
Injective(f) == \A x, y \in DOMAIN f : f[x] = f[y] => x = y

\* the step just taken is a claim_account call
ClaimedNow == last'.op = "claim_account"

\* the shadow account of the address a claim names
Shadow(c) == Synthesized(c.eth_address)

CallOps(cs) == {cs[i].op : i \in DOMAIN cs}

\* C1: in every state reached by claim_account calls no two stored pairs
\* share a foreign address or a native account: the forward table Accounts
\* and the reverse table EvmAddresses are both injective.
C1_Bijectivity == Injective(Accounts) /\ Injective(EvmAddresses)

FiveErrors == {"EthAddressHasMapped", "BadSignature", "InvalidSignature",
               "NonZeroRefCount", "StillHasActiveReserved"}

\* C2: a claim_account call failing with one of the five error kinds leaves
\* every account's free balance, reserved balance, sequence counter and
\* active status and both mapping tables as they were, and emits no event.
C2_ClaimAtomicity ==
  [][(ClaimedNow /\ last'.err \in FiveErrors) =>
       /\ Accounts' = Accounts
       /\ EvmAddresses' = EvmAddresses
       /\ Account' = Account
       /\ Events' = <<>>]_vars

\* a claim failed StillHasActiveReserved on a shadow account holding twice
\* the threshold in reserve
C2_Witness ==
  /\ last.op = "claim_account"
  /\ last.err = "StillHasActiveReserved"
  /\ reserved_balance(State, Shadow(last)) = 2 * NewAccountDeposit

\* a successful claim whose shadow account was active before the call
MergedNow ==
  /\ ClaimedNow
  /\ last'.err = "Ok"
  /\ is_explicit(State, Shadow(last'))

\* C3 as stated: after a successful claim over an active shadow account with
\* free balance F and reserved balance R <= threshold, the caller's free
\* balance is C + F.
C3_MergeBalance_Stated ==
  [][MergedNow =>
       free_balance(State', last'.who) =
         free_balance(State, last'.who) + free_balance(State, Shadow(last'))]_vars

\* C3 amended: the caller's free balance is C + F + R, the released reserve
\* being part of what is transferred.
C3_MergeBalance ==
  [][MergedNow =>
       /\ reserved_balance(State, Shadow(last')) <= NewAccountDeposit
       /\ free_balance(State', last'.who) =
            free_balance(State, last'.who) + free_balance(State, Shadow(last'))
              + reserved_balance(State, Shadow(last'))]_vars

\* a merge that released a reserve and transferred funds to the caller
C3_Witness ==
  /\ last.op = "claim_account"
  /\ last.err = "Ok"
  /\ \E i \in DOMAIN calls : calls[i].op = "unreserve" /\ calls[i].value > 0
  /\ \E i \in DOMAIN calls : calls[i].op = "transfer" /\ calls[i].value > 1

Max(a, b) == IF a > b THEN a ELSE b

\* C4: after a successful claim whose shadow account was active, the
\* caller's sequence counter is the larger of the caller's and the shadow
\* account's counters before the claim.
C4_MergeSequence ==
  [][MergedNow =>
       account_nonce(State', last'.who) =
         Max(account_nonce(State, last'.who), account_nonce(State, Shadow(last')))]_vars

\* position of the first call of an operation in a call log (0 when absent)
FirstCall(cs, op) ==
  IF op \in CallOps(cs) THEN CHOOSE i \in DOMAIN cs :
       cs[i].op = op /\ \A j \in DOMAIN cs : cs[j].op = op => i <= j
  ELSE 0

ForwardEntries(table, who) == {a \in DOMAIN table : table[a] = who}

\* C6: when a caller mapped to address A successfully claims another address
\* B, afterwards A has no forward entry, B maps to the caller, the caller
\* maps to B, and neither the final table nor any table written on the way
\* holds two forward entries for the caller.
C6_ReclaimReplaces ==
  [][(/\ ClaimedNow
      /\ last'.err = "Ok"
      /\ last'.who \in DOMAIN EvmAddresses
      /\ EvmAddresses[last'.who] # last'.eth_address) =>
       /\ EvmAddresses[last'.who] \notin DOMAIN Accounts'
       /\ last'.eth_address \in DOMAIN Accounts'
       /\ Accounts'[last'.eth_address] = last'.who
       /\ EvmAddresses'[last'.who] = last'.eth_address
       /\ Cardinality(ForwardEntries(Accounts', last'.who)) = 1
       /\ \A i \in DOMAIN fwd' :
            Cardinality(ForwardEntries(fwd'[i], last'.who)) <= 1]_vars

\* a re-claim whose update block removed the caller's old forward entry
C6_Witness ==
  /\ last.op = "claim_account"
  /\ last.err = "Ok"
  /\ Len(fwd) = 3
  /\ ForwardEntries(fwd[1], last.who) # {}
  /\ ForwardEntries(fwd[2], last.who) = {}
  /\ ForwardEntries(fwd[3], last.who) = {last.eth_address}

\* the signature a key makes for a caller's claim
ClaimSignature(secret, who) == eth_sign(secret, encode(who), <<>>)

\* C7: claim_account fails with EthAddressHasMapped whenever the address has
\* a forward mapping, to the caller or to anyone else, whatever the
\* signature, and the stored mapping stays as it is.
C7_AlreadyClaimed ==
  [][(ClaimedNow /\ last'.eth_address \in DOMAIN Accounts) =>
       /\ last'.err = "EthAddressHasMapped"
       /\ Accounts' = Accounts
       /\ EvmAddresses' = EvmAddresses]_vars

\* the owner of an address claims it again with a valid signature and fails
C7_Witness ==
  /\ last.op = "claim_account"
  /\ last.err = "EthAddressHasMapped"
  /\ last.eth_address \in DOMAIN Accounts
  /\ Accounts[last.eth_address] = last.who
  /\ \E k \in SecretKeys :
       /\ eth_address(k) = last.eth_address
       /\ last.eth_signature = ClaimSignature(k, last.who)

\* a signature bound to the pair (who, address): well formed, made by the
\* key of that address over the message built from the hex-encoded identity
\* of who and no extra bytes
BoundTo(s, who, address) ==
  /\ s.wellformed
  /\ eth_address(s.secret) = address
  /\ s.msg = keccak_256(ethereum_signable_message(to_ascii_hex(encode(who)), <<>>))

\* C8: a pair (address, who) enters the forward table only by a claim of who
\* for that address carrying a signature bound to that pair; on an unmapped
\* address a signature recovering nothing fails BadSignature and one
\* recovering another address fails InvalidSignature.
C8_ProofOfOwnership ==
  [][/\ \A a \in DOMAIN Accounts' :
          (a \notin DOMAIN Accounts \/ Accounts[a] # Accounts'[a]) =>
            /\ ClaimedNow
            /\ last'.err = "Ok"
            /\ last'.eth_address = a
            /\ last'.who = Accounts'[a]
            /\ BoundTo(last'.eth_signature, Accounts'[a], a)
     /\ (ClaimedNow /\ last'.eth_address \notin DOMAIN Accounts) =>
          /\ ~last'.eth_signature.wellformed => last'.err = "BadSignature"
          /\ (/\ last'.eth_signature.wellformed
              /\ ~BoundTo(last'.eth_signature, last'.who, last'.eth_address))
               => last'.err = "InvalidSignature"]_vars

\* a claim carrying the right key's signature made for another caller's
\* identity fails InvalidSignature
C8_Witness ==
  /\ last.op = "claim_account"
  /\ last.err = "InvalidSignature"
  /\ eth_address(last.eth_signature.secret) = last.eth_address
  /\ \E w \in Callers \ {last.who} : BoundTo(last.eth_signature, w, last.eth_address)

\* a claim that passes the mapping and signature checks and finds an active,
\* deletable shadow account
ReachesReservedCheck ==
  /\ ClaimedNow
  /\ last'.eth_address \notin DOMAIN Accounts
  /\ BoundTo(last'.eth_signature, last'.who, last'.eth_address)
  /\ is_explicit(State, Shadow(last'))
  /\ allow_death(State, Shadow(last'))

\* C9: with an active, deletable shadow account the claim fails
\* StillHasActiveReserved exactly when the reserved balance exceeds
\* NewAccountDeposit; a reserve up to the threshold is released in full by a
\* successful claim.
C9_ReservedBound ==
  [][ReachesReservedCheck =>
       LET R == reserved_balance(State, Shadow(last'))
       IN  /\ (last'.err = "StillHasActiveReserved") <=> (R > NewAccountDeposit)
           /\ (last'.err = "Ok" /\ R > 0) =>
                /\ Call("unreserve", Shadow(last'), R) \in
                     {calls'[i] : i \in DOMAIN calls'}
                /\ reserved_balance(State', Shadow(last')) = 0
                /\ free_balance(State', last'.who) >= R]_vars

\* a successful claim released a reserve exactly equal to the threshold
C9_Witness ==
  /\ last.op = "claim_account"
  /\ last.err = "Ok"
  /\ Call("unreserve", Shadow(last), NewAccountDeposit) \in {calls[i] : i \in DOMAIN calls}

\* C10 as stated: recovering from eth_sign(k, payload, extra) with the same
\* payload and extra yields eth_address(k).
C10_RoundTrip_Stated ==
  harness.stage = "recovered" => harness.rec = eth_address(harness.secret)

\* C10 amended: eth_sign hex-encodes its payload, so recovery yields
\* eth_address(k) when eth_recover is given to_ascii_hex(payload); given the
\* payload itself it does so only for the empty payload.
C10_RoundTrip ==
  /\ harness.stage = "recovered_hex" => harness.rec = eth_address(harness.secret)
  /\ harness.stage = "recovered" =>
       ((harness.rec = eth_address(harness.secret)) <=> (harness.what = <<>>))

\* a non-empty payload with non-empty extra signed and recovered over its
\* hex encoding
C10_Witness ==
  /\ harness.stage = "recovered_hex"
  /\ harness.what # <<>>
  /\ harness.extra # <<>>
  /\ harness.rec = eth_address(harness.secret)

\* value of a string of ASCII decimal digits, most significant digit first
RECURSIVE DecimalValue(_)
DecimalValue(ds) ==
  IF ds = <<>> THEN 0
  ELSE 10 * DecimalValue(SubSeq(ds, 1, Len(ds) - 1)) + (ds[Len(ds)] - 48)

\* the length field of a message built over a payload and extra bytes: what
\* lies between the preamble and "acala evm:" ++ payload ++ extra
LengthField(msg, what, extra) ==
  SubSeq(msg, Len(EthereumPreamble) + 1,
         Len(msg) - Len(prefix) - Len(what) - Len(extra))

\* C11: ethereum_signable_message(payload, extra) is the preamble, the
\* decimal ASCII encoding of L = 10 + len(payload) + len(extra), "acala evm:",
\* payload and extra; the encoding is non-empty, has no leading zero and no
\* sign, and denotes exactly L; a 64-character payload with empty extra gives
\* the length field "74".
C11_MessageFormat ==
  harness.stage = "message" =>
    LET L == 10 + Len(harness.what) + Len(harness.extra)
        ds == LengthField(harness.msg, harness.what, harness.extra)
    IN  /\ harness.msg = EthereumPreamble \o ds \o <<97, 99, 97, 108, 97, 32, 101, 118, 109, 58>>
                            \o harness.what \o harness.extra
        /\ ds # <<>>
        /\ \A i \in DOMAIN ds : ds[i] \in 48..57
        /\ ds[1] # 48
        /\ DecimalValue(ds) = L
        /\ (Len(harness.what) = 64 /\ harness.extra = <<>>) => ds = <<55, 52>>

\* the message over the hex encoding of a 32-byte all-zero account and no
\* extra bytes was built, its length field reading "74"
C11_Witness ==
  /\ harness.stage = "message"
  /\ harness.what = ZeroAccountHex
  /\ harness.extra = <<>>
  /\ LengthField(harness.msg, harness.what, harness.extra) = <<55, 52>>

\* addresses handed to into_account_id: those somebody holds a key of and
\* two nobody can claim
DerivedAddresses == Addresses \cup {<<2>>, <<255>>}

C13_TwoSidedSync ==
  /\ \A a \in DOMAIN Accounts :
       Accounts[a] \in DOMAIN EvmAddresses /\ EvmAddresses[Accounts[a]] = a
  /\ \A x \in DOMAIN EvmAddresses :
       EvmAddresses[x] \in DOMAIN Accounts /\ Accounts[EvmAddresses[x]] = x

\* the step just taken is the account-killed hook run by the registry
KilledNow == last'.op = "killed"

\* the pairs of a forward table that belong to accounts other than who
PairsOfOthers(table, who) == {<<a, table[a]>> : a \in {b \in DOMAIN table : table[b] # who}}

\* the pairs of a reverse table that belong to accounts other than who
ReversePairsOfOthers(table, who) == {<<x, table[x]>> : x \in (DOMAIN table) \ {who}}

\* C14: the account-killed hook for account w removes only the pair of w;
\* the pairs of every other account stay, and when w has no mapping (as a
\* shadow account destroyed by a merge has none) both tables stay as they
\* are: a merging claim changes no pair but the caller's.
C14_HookFrame ==
  [][/\ KilledNow =>
          /\ PairsOfOthers(Accounts', last'.who) = PairsOfOthers(Accounts, last'.who)
          /\ ReversePairsOfOthers(EvmAddresses', last'.who)
               = ReversePairsOfOthers(EvmAddresses, last'.who)
          /\ last'.who \notin DOMAIN EvmAddresses' \cup {Accounts'[a] : a \in DOMAIN Accounts'}
          /\ last'.who \notin DOMAIN EvmAddresses =>
               Accounts' = Accounts /\ EvmAddresses' = EvmAddresses
     /\ (ClaimedNow /\ last'.err = "Ok" /\ "kill" \in CallOps(calls')) =>
          /\ PairsOfOthers(Accounts', last'.who) = PairsOfOthers(Accounts, last'.who)
          /\ ReversePairsOfOthers(EvmAddresses', last'.who)
               = ReversePairsOfOthers(EvmAddresses, last'.who)]_vars

\* C15: a stored pair (a, x) stays until the account-killed hook runs for x
\* or x successfully claims another address; no claim by another account, no
\* failed claim and no destruction of another account removes or changes it.
C15_MappingPersistence ==
  [][\A a \in DOMAIN Accounts :
       (/\ ~(KilledNow /\ last'.who = Accounts[a])
        /\ ~(ClaimedNow /\ last'.err = "Ok" /\ last'.who = Accounts[a]))
       => (a \in DOMAIN Accounts' /\ Accounts'[a] = Accounts[a])]_vars

\* C16: a successful claim whose shadow account is not active makes no
\* unreserve, no transfer and no account destruction and leaves every
\* account's balances and sequence counter as they were; only the mapping
\* tables change and the event is emitted.
C16_NoMergeFrame ==
  [][(/\ ClaimedNow
      /\ last'.err = "Ok"
      /\ into_account_id(State, last'.eth_address) \notin DOMAIN Account) =>
       /\ calls' = <<>>
       /\ Account' = Account
       /\ Accounts'[last'.eth_address] = last'.who
       /\ EvmAddresses'[last'.who] = last'.eth_address
       /\ Events' = Append(Events, ClaimAccount(last'.who, last'.eth_address))]_vars

\* a caller whose sequence counter has advanced claimed an address that has
\* no active shadow account, without any external call
C16_Witness ==
  /\ last.op = "claim_account"
  /\ last.err = "Ok"
  /\ calls = <<>>
  /\ Shadow(last) \notin DOMAIN Account
  /\ account_nonce(State, last.who) > 0
  /\ free_balance(State, last.who) > 0

\* C17: when the ledger refuses the transfer of the merge after the reserve
\* was released, claim_account returns the ledger's error and balances,
\* sequence counters, accounts and both mapping tables are as before the
\* call, and no event is emitted.
C17_LedgerRollback ==
  [][(ClaimedNow /\ "transfer" \in CallOps(calls') /\ "kill" \notin CallOps(calls')) =>
       /\ last'.err = "LedgerError"
       /\ Account' = Account
       /\ Accounts' = Accounts
       /\ EvmAddresses' = EvmAddresses
       /\ Events' = Events]_vars

\* a claim released a reserve, had its transfer refused, and the shadow
\* account still holds the reserve
C17_Witness ==
  /\ last.op = "claim_account"
  /\ last.err = "LedgerError"
  /\ \E i \in DOMAIN calls : calls[i].op = "unreserve" /\ calls[i].value > 0
  /\ reserved_balance(State, Shadow(last)) > 0
  /\ is_explicit(State, Shadow(last))

\* the first failure condition that applies to a claim, in the order
\* EthAddressHasMapped, BadSignature, InvalidSignature, NonZeroRefCount,
\* StillHasActiveReserved; "none" when no condition applies
FirstFailure(st, who, eth_addr, eth_signature) ==
  LET shadow == Synthesized(eth_addr)
      active == shadow \in DOMAIN st.Account
  IN  IF eth_addr \in DOMAIN st.Accounts THEN "EthAddressHasMapped"
      ELSE IF ~eth_signature.wellformed THEN "BadSignature"
      ELSE IF ~BoundTo(eth_signature, who, eth_addr) THEN "InvalidSignature"
      ELSE IF active /\ st.Account[shadow].refcount # 0 THEN "NonZeroRefCount"
      ELSE IF active /\ st.Account[shadow].reserved > NewAccountDeposit
           THEN "StillHasActiveReserved"
      ELSE "none"

\* C18: claim_account reports the first failure condition that applies, in
\* the order EthAddressHasMapped, BadSignature, InvalidSignature,
\* NonZeroRefCount, StillHasActiveReserved; the last two are never reported
\* for a shadow account that is not active.
C18_ErrorPrecedence ==
  [][ClaimedNow =>
       LET first == FirstFailure(State, last'.who, last'.eth_address,
                                 last'.eth_signature)
       IN  /\ first # "none" => last'.err = first
           /\ first = "none" => last'.err \in {"Ok", "LedgerError"}
           /\ last'.err \in {"NonZeroRefCount", "StillHasActiveReserved"} =>
                Shadow(last') \in DOMAIN Account]_vars

\* a claim met a shadow account both referenced and holding more than the
\* threshold in reserve, and failed NonZeroRefCount
C18_Witness ==
  /\ last.op = "claim_account"
  /\ last.err = "NonZeroRefCount"
  /\ ~allow_death(State, Shadow(last))
  /\ reserved_balance(State, Shadow(last)) > NewAccountDeposit

\* C19: a successful claim emits exactly one ClaimAccount(caller, address)
\* event, and with it in place the address maps to the caller and the caller
\* to the address; a failed claim emits no event.
C19_EventCorrespondence ==
  [][ClaimedNow =>
       IF last'.err = "Ok"
       THEN /\ Events' = Append(Events, ClaimAccount(last'.who, last'.eth_address))
            /\ accounts(State', last'.eth_address) = last'.who
            /\ last'.eth_address \in DOMAIN Accounts'
            /\ last'.who \in DOMAIN EvmAddresses'
            /\ evm_addresses(State', last'.who) = last'.eth_address
       ELSE Events' = Events]_vars

\* a caller that was mapped to another address claimed successfully and the
\* one event of the block carries the caller and the new address
C19_Witness ==
  /\ last.op = "claim_account"
  /\ last.err = "Ok"
  /\ Events = <<ClaimAccount(last.who, last.eth_address)>>
  /\ Len(fwd) = 3
  /\ \E a \in DOMAIN fwd[1] : fwd[1][a] = last.who /\ a # last.eth_address
  /\ Accounts[last.eth_address] = last.who

\* free plus reserved balance of an account
Holdings(st, who) == free_balance(st, who) + reserved_balance(st, who)

====
